---- MODULE Spec2Model ----
(***************************************************************************)
(* canhttpd2: HTTP -> CAN-Bus proxy (src/canhttpd2.py).                    *)
(*                                                                         *)
(* Texts are sequences of one-character strings, Python values are tagged  *)
(* records, and the integer conversions are computed digit by digit the    *)
(* way CPython 2 (the interpreter the source is written for) computes      *)
(* int(x), int(x, 16) and int(x, 0).                                       *)
(***************************************************************************)
EXTENDS Integers, Sequences, FiniteSets, TLC

(* ------------------------------------------------------------------ *)
(* Bounds                                                              *)
(* ------------------------------------------------------------------ *)

\* longest request value text that is enumerated
MaxValueLen == 3
\* longest raw configuration text that is enumerated for the validators
MaxCfgLen == 3
\* most handles that Initialize is called on in one run
MaxInits == 2
MaxWorkers == 2
MaxArgs == 2

(* ------------------------------------------------------------------ *)
(* Python values                                                       *)
(* ------------------------------------------------------------------ *)

PyInt(n) == [t |-> "int", i |-> n, s |-> <<>>]
PyStr(s) == [t |-> "str", i |-> 0, s |-> s]
PyNone == [t |-> "none", i |-> 0, s |-> <<>>]
\* a list of texts, s being its items joined by commas
PyList(s) == [t |-> "list", i |-> 0, s |-> s]

\* all texts over an alphabet, up to a length
Extended(texts, alphabet) ==
    texts \cup {Append(t, c) : t \in texts, c \in alphabet}

RECURSIVE TextsUpTo(_, _)
TextsUpTo(alphabet, n) ==
    IF n = 0 THEN {<<>>} ELSE Extended(TextsUpTo(alphabet, n - 1), alphabet)

(* ------------------------------------------------------------------ *)
(* int(text, base) of CPython 2                                        *)
(* ------------------------------------------------------------------ *)

\* value of one digit character; 37 for a character that is no digit
DigitValue(c) ==
    CASE c = "0" -> 0 [] c = "1" -> 1 [] c = "2" -> 2 [] c = "3" -> 3
      [] c = "4" -> 4 [] c = "5" -> 5 [] c = "6" -> 6 [] c = "7" -> 7
      [] c = "8" -> 8 [] c = "9" -> 9
      [] c \in {"a", "A"} -> 10 [] c \in {"b", "B"} -> 11
      [] c \in {"c", "C"} -> 12 [] c \in {"d", "D"} -> 13
      [] c \in {"e", "E"} -> 14 [] c \in {"f", "F"} -> 15
      [] c \in {"k", "K"} -> 20 [] c \in {"m", "M"} -> 22
      [] c \in {"o", "O"} -> 24 [] c \in {"x", "X"} -> 33
      [] OTHER -> 37

\* leading and trailing blanks are skipped
RECURSIVE LStrip(_)
LStrip(t) == IF t # <<>> /\ Head(t) = " " THEN LStrip(Tail(t)) ELSE t

RECURSIVE RStrip(_)
RStrip(t) ==
    IF t # <<>> /\ t[Len(t)] = " " THEN RStrip(SubSeq(t, 1, Len(t) - 1)) ELSE t

\* one optional sign (blanks between the sign and the digits are skipped)
HasSign(t) == t # <<>> /\ Head(t) \in {"-", "+"}
Unsigned(t) == IF HasSign(t) THEN Tail(t) ELSE t
IsNegative(t) == t # <<>> /\ Head(t) = "-"

\* the letter that announces a base after a leading zero
PrefixLetters(base) ==
    CASE base = 16 -> {"x", "X"}
      [] base = 8 -> {"o", "O"}
      [] base = 2 -> {"b", "B"}
      [] OTHER -> {}

\* base 0: the base is read off the text; a bare leading zero means octal
DetectBase(u, base) ==
    IF base # 0 THEN base
    ELSE IF u # <<>> /\ Head(u) = "0"
         THEN IF Len(u) >= 2 /\ u[2] \in PrefixLetters(16) THEN 16
              ELSE IF Len(u) >= 2 /\ u[2] \in PrefixLetters(8) THEN 8
              ELSE IF Len(u) >= 2 /\ u[2] \in PrefixLetters(2) THEN 2
              ELSE 8
         ELSE 10

\* the prefix is skipped only when a digit of the base follows it
SkipPrefix(u, b) ==
    IF /\ Len(u) >= 3
       /\ Head(u) = "0"
       /\ u[2] \in PrefixLetters(b)
       /\ DigitValue(u[3]) < b
    THEN SubSeq(u, 3, Len(u))
    ELSE u

RECURSIVE AccumDigits(_, _, _)
AccumDigits(ds, b, acc) ==
    IF ds = <<>> THEN acc
    ELSE AccumDigits(Tail(ds), b, acc * b + DigitValue(Head(ds)))

\* the digits ds are read in base b: [ok, val]; ok is FALSE where a
\* character is no digit of the base or there is no digit at all
ParseDigits(negative, ds, b) ==
    IF ds # <<>> /\ \A k \in 1..Len(ds) : DigitValue(ds[k]) < b
    THEN [ok |-> TRUE,
          val |-> IF negative THEN 0 - AccumDigits(ds, b, 0)
                  ELSE AccumDigits(ds, b, 0)]
    ELSE [ok |-> FALSE, val |-> 0]

ParseUnsigned(negative, u, b) == ParseDigits(negative, SkipPrefix(u, b), b)

ParseSigned(negative, u, base) == ParseUnsigned(negative, u, DetectBase(u, base))

ParseStripped(t, base) == ParseSigned(IsNegative(t), LStrip(Unsigned(t)), base)

\* int(text, base): [ok, val]; ok is FALSE where Python raises ValueError
ParseInt(text, base) == ParseStripped(RStrip(LStrip(text)), base)

(* ------------------------------------------------------------------ *)
(* Configuration validator                                             *)
(* ------------------------------------------------------------------ *)

\* a constant of the PCANBasic module, named as getattr names it: the
\* prefix of the attribute, then the channel number or the label
PcanConst(prefix, n, label) == [const |-> prefix, n |-> n, label |-> label]
NoConst == PcanConst("", 0, <<>>)

LowerLetters ==
    <<"a", "b", "c", "d", "e", "f", "g", "h", "i", "j", "k", "l", "m",
      "n", "o", "p", "q", "r", "s", "t", "u", "v", "w", "x", "y", "z">>
UpperLetters ==
    <<"A", "B", "C", "D", "E", "F", "G", "H", "I", "J", "K", "L", "M",
      "N", "O", "P", "Q", "R", "S", "T", "U", "V", "W", "X", "Y", "Z">>

\* str.upper(), one character
UpperChar(c) ==
    IF \E k \in 1..Len(LowerLetters) : LowerLetters[k] = c
    THEN UpperLetters[CHOOSE k \in 1..Len(LowerLetters) : LowerLetters[k] = c]
    ELSE c

\* (variant: the text is compared as it is spelled)
Upper_as_spelled(t) == t

\* str.upper()
Upper(t) == [k \in 1..Len(t) |-> UpperChar(t[k])]

default_config ==
    [canbus_channel |-> PyInt(1),
     canbus_baudrate |-> PyStr(<<"2", "5", "0", "K">>),
     canbus_mode |-> PyStr(<<"e", "x", "t", "e", "n", "d", "e", "d">>),
     canbus_id |-> PyStr(<<"0", "x", "4", "1", "4", "1", "4", "1", "4", "1">>)]

\* outcome of a validator: err is "" and val the constant, or err names
\* the exception that is raised
Resolved(v) == [err |-> "", val |-> v]
Raises(e) == [err |-> e, val |-> NoConst]

channel_range == 1..8

\* a parse that failed raises ValueError
OrValueError(p) ==
    IF p.ok THEN [err |-> "", val |-> p.val] ELSE [err |-> "ValueError", val |-> 0]

\* int(channel) of get_channel: an int is kept, a text is read in base 10
IntOf(x) ==
    CASE x.t = "int" -> [err |-> "", val |-> x.i]
      [] x.t = "str" -> OrValueError(ParseInt(x.s, 10))
      [] OTHER -> [err |-> "TypeError", val |-> 0]

\* the range check of get_channel on int(channel)
ChannelInRange(n) ==
    IF n.err # "" THEN Raises(n.err)
    ELSE IF n.val \notin channel_range
         THEN Raises("InvalidConfigurationException")
         ELSE Resolved(PcanConst("PCAN_USBBUS", n.val, <<>>))

get_channel(channel) == ChannelInRange(IntOf(channel))

legal_values ==
    { <<"1", "M">>, <<"8", "0", "0", "K">>, <<"5", "0", "0", "K">>,
      <<"2", "5", "0", "K">>, <<"1", "2", "5", "K">>, <<"1", "0", "0", "K">>,
      <<"9", "5", "K">>, <<"8", "3", "K">>, <<"5", "0", "K">>,
      <<"4", "7", "K">>, <<"3", "3", "K">>, <<"2", "0", "K">>,
      <<"1", "0", "K">>, <<"5", "K">> }

\* the membership test of get_baudrate on the upper-cased text
LegalBaudrate(up) ==
    IF up \notin legal_values
    THEN Raises("InvalidConfigurationException")
    ELSE Resolved(PcanConst("PCAN_BAUD", 0, up))

get_baudrate(baudrate) ==
    IF baudrate.t # "str" THEN Raises("AttributeError")
    ELSE LegalBaudrate(Upper(baudrate.s))

STANDARD == <<"S", "T", "A", "N", "D", "A", "R", "D">>
EXTENDED == <<"E", "X", "T", "E", "N", "D", "E", "D">>
PCAN_MODE_STANDARD == PcanConst("PCAN_MODE", 0, STANDARD)
PCAN_MODE_EXTENDED == PcanConst("PCAN_MODE", 0, EXTENDED)

\* the comparisons of get_mode on the upper-cased text
ModeNamed(up) ==
    IF up = STANDARD THEN Resolved(PCAN_MODE_STANDARD)
    ELSE IF up = EXTENDED THEN Resolved(PCAN_MODE_EXTENDED)
    ELSE Raises("InvalidConfigurationException")

get_mode(mode) ==
    IF mode.t # "str" THEN Raises("AttributeError")
    ELSE ModeNamed(Upper(mode.s))

\* int(cfg['canbus_id'], 16) of make_canbus, ValueError turned into
\* InvalidConfigurationException; a value that is no text raises TypeError
\* (variant: the ValueError of int() is not caught)
OrInvalidId_uncaught(p) ==
    IF p.ok THEN Resolved(PcanConst("int", p.val, <<>>)) ELSE Raises("ValueError")

\* int(cfg['canbus_id'], 16) gave p; ValueError becomes InvalidConfigurationException
OrInvalidId(p) ==
    IF p.ok THEN Resolved(PcanConst("int", p.val, <<>>))
    ELSE Raises("InvalidConfigurationException")

get_id(id) ==
    IF id.t # "str" THEN Raises("TypeError")
    ELSE OrInvalidId(ParseInt(id.s, 16))

(* ------------------------------------------------------------------ *)
(* Inputs                                                              *)
(* ------------------------------------------------------------------ *)

\* characters of the request values: digits, a hex digit, the letters of
\* the two prefixes, a sign
ValueChars == {"0", "1", "9", "a", "x", "o", "-"}
ValueTexts == TextsUpTo(ValueChars, MaxValueLen)

\* a query parameter given twice arrives as the list of its texts
Repeated == PyList(<<"1", ",", "1">>)

\* the value argument of proxy: absent (None), a text, or a list of texts
Values == {PyNone, Repeated} \cup {PyStr(t) : t \in ValueTexts}

\* the request values of the lifecycle runs
SampleTexts ==
    { <<>>, <<"0", "x", "2", "3">>, <<"a", "b", "c">>, <<"1", "0">>,
      <<"5">>, <<"0", "o", "1", "2">>, <<"3", "0", "0">> }
SampleValues == {PyNone, Repeated} \cup {PyStr(t) : t \in SampleTexts}

\* configurations the loader supplies: the default one and the default
\* one with one key changed
ChannelValues ==
    {PyInt(1), PyInt(8), PyStr(<<"3">>), PyInt(0), PyInt(9), PyStr(<<"x">>)}
BaudrateValues ==
    {PyStr(<<"2", "5", "0", "K">>), PyStr(<<"1", "m">>), PyStr(<<"7", "K">>)}
ModeValues ==
    {PyStr(<<"e", "x", "t", "e", "n", "d", "e", "d">>),
     PyStr(<<"S", "t", "a", "n", "d", "a", "r", "d">>),
     PyStr(<<"f", "a", "s", "t">>)}
IdValues ==
    {PyStr(<<"0", "x", "4", "1", "4", "1", "4", "1", "4", "1">>),
     PyStr(<<"2", "3">>), PyStr(<<"0", "x", "2", "3">>),
     PyStr(<<"z", "z">>), PyInt(23)}

Configs ==
    {default_config}
    \cup {[default_config EXCEPT !.canbus_channel = c] : c \in ChannelValues}
    \cup {[default_config EXCEPT !.canbus_baudrate = b] : b \in BaudrateValues}
    \cup {[default_config EXCEPT !.canbus_mode = m] : m \in ModeValues}
    \cup {[default_config EXCEPT !.canbus_id = i] : i \in IdValues}

\* the configurations of the request runs: two that differ in the
\* resolved channel, id and mode, and one that does not validate
RequestConfigs ==
    {default_config,
     [default_config EXCEPT !.canbus_channel = PyInt(8),
                            !.canbus_id = PyStr(<<"2", "3">>),
                            !.canbus_mode =
                                PyStr(<<"S", "t", "a", "n", "d", "a", "r", "d">>)],
     [default_config EXCEPT !.canbus_channel = PyInt(9)]}

\* status codes of the driver
PCAN_ERROR_OK == "PCAN_ERROR_OK"
InitializeResults == {PCAN_ERROR_OK, "PCAN_ERROR_NODRIVER"}

\* what a hardware Write does: returns a status code or raises
Returned(status) == [raised |-> FALSE, status |-> status]
Raised(what) == [raised |-> TRUE, status |-> what]
WriteOutcomes ==
    {Returned(PCAN_ERROR_OK), Returned("PCAN_ERROR_BUSOFF"), Raised("WindowsError")}

\* what cherrypy.engine.exit() does when called from a start listener:
\* the engine ends the process (os._exit), or exit() returns to the caller
ExitOutcomes == {"killed", "returned"}

(* ------------------------------------------------------------------ *)
(* State                                                               *)
(* ------------------------------------------------------------------ *)

VARIABLES
    alive,      \* the server process runs
    lifecycle,  \* "Unstarted", "Running" or "Stopped"
    testmode,   \* CanBusProxy.testmode
    config,     \* CanBusProxy.config: <<>> before the first start, else <<cfg>>
    canbus,     \* CanBusProxy.canbus: <<>> for None, else <<handle>>
    hstate,     \* per handle that Initialize was called on, in order of
                \* construction: "live", "dead" (Initialize failed),
                \* "closed" (Uninitialize called), "closed2" (called again)
    calls,      \* the bus calls the last event made, in order
    logged,     \* the log lines the last event wrote, in order
    response,   \* the HTTP response of the last request
    event,      \* the last event handled and its input
    laststart,  \* how the last on_start ended ("" before the first one)
    checked,    \* the last validator application: <<>> or <<[fn, input, out]>>
    inflight,   \* per request worker: the request it is handling and how far
                \* it has got ("idle", "Write" inside the call, "done")
    previous    \* how the request before the last event ended, where a run
                \* keeps it ("none" otherwise)

vars ==
    <<alive, lifecycle, testmode, config, canbus, hstate, calls, logged,
      response, event, laststart, checked, inflight, previous>>

NoResponse == [status |-> 0, reason |-> "", ctype |-> "", body |-> ""]
NoEvent == [op |-> "", value |-> PyNone, result |-> ""]

\* the request workers of the server's thread pool
Workers == 1..MaxWorkers

\* a worker that handles no request
Idle ==
    [pc |-> "idle", value |-> PyNone, bus |-> <<>>, response |-> NoResponse,
     logged |-> <<>>]

Init ==
    /\ alive = TRUE
    /\ lifecycle = "Unstarted"
    /\ testmode \in BOOLEAN
    /\ config = <<>>
    /\ canbus = <<>>
    /\ hstate = <<>>
    /\ calls = <<>>
    /\ logged = <<>>
    /\ response = NoResponse
    /\ event = NoEvent
    /\ laststart = ""
    /\ checked = <<>>
    /\ inflight = [w \in Workers |-> Idle]
    /\ previous = "none"

(* ------------------------------------------------------------------ *)
(* Bus capability                                                      *)
(* ------------------------------------------------------------------ *)

NoFrame == [ID |-> 0, LEN |-> 0, MSGTYPE |-> NoConst, DATA |-> <<>>]

\* one call on a bus object
BusCall(op, h, baudrate, ioport, frame) ==
    [op |-> op, hid |-> h.hid, variant |-> h.variant,
     channel |-> h.canbus_channel, baudrate |-> baudrate, ioport |-> ioport,
     frame |-> frame]

LogLine(text, value, detail) == [text |-> text, value |-> value, detail |-> detail]

\* TestModeCanBus logs each call; the driver logs nothing
BusLog(h, op) ==
    IF h.variant = "TestModeCanBus"
    THEN <<LogLine("CANHTTPD2 TestModeCanBus", <<>>, op)>>
    ELSE <<>>

\* (variant: the simulated Initialize returns nothing, as Uninitialize does)
InitializeResult_returning_none(h, hw) ==
    IF h.variant = "TestModeCanBus" THEN "None" ELSE hw

\* TestModeCanBus.Initialize returns PCAN_ERROR_OK; the driver its status
InitializeResult(h, hw) ==
    IF h.variant = "TestModeCanBus" THEN PCAN_ERROR_OK ELSE hw

\* TestModeCanBus.Write returns PCAN_ERROR_OK; the driver returns or raises
WriteResult(h, hw) ==
    IF h.variant = "TestModeCanBus" THEN Returned(PCAN_ERROR_OK) ELSE hw

\* TestModeCanBus.Uninitialize has no return statement, so it returns None;
\* the driver returns its status
None == "None"
UninitializeResult(h, hw) ==
    IF h.variant = "TestModeCanBus" THEN None ELSE hw

\* the calls that reach the vendor driver: those on a PCANBasic object
DriverCalls(h, op) ==
    IF h.variant = "PCANBasic" THEN <<op>> ELSE <<>>

(* ------------------------------------------------------------------ *)
(* Lifecycle binder: on_stop                                           *)
(* ------------------------------------------------------------------ *)

\* on_stop: Uninitialize on the stored handle, if there is one
OnStopCalls(cb) ==
    IF cb # <<>> THEN <<BusCall("Uninitialize", cb[1], NoConst, NoConst, NoFrame)>>
    ELSE <<>>

OnStopLogged(cb) ==
    IF cb # <<>> THEN BusLog(cb[1], "Uninitialize()") ELSE <<>>

\* self.canbus after on_stop: the attribute is not assigned
OnStopCanbus(cb) == cb

\* the record of the handles after Uninitialize on the stored one
Closed(hs, cb) ==
    IF cb = <<>> THEN hs
    ELSE [hs EXCEPT ![cb[1].hid] =
             IF @ \in {"closed", "closed2"} THEN "closed2" ELSE "closed"]

(* ------------------------------------------------------------------ *)
(* Bus factory: make_canbus                                            *)
(* ------------------------------------------------------------------ *)

NoHandle ==
    [hid |-> 0, variant |-> "", canbus_id |-> 0, canbus_channel |-> NoConst,
     canbus_baudrate |-> NoConst, canbus_mode |-> NoConst]

\* make_canbus up to its return: err names the exception that escapes
\* ("" for none), handle is the object built, res the result of Initialize
\* ("" when Initialize is not reached), exits whether engine.exit() is called
Failed(e) ==
    [err |-> e, handle |-> NoHandle, res |-> "", calls |-> <<>>,
     logged |-> <<>>, exits |-> FALSE]

\* canbus.Initialize(channel, baudrate, IOPort=mode) and the check of its result
Initialized(h, res) ==
    [err |-> "", handle |-> h, res |-> res,
     calls |-> <<BusCall("Initialize", h, h.canbus_baudrate, h.canbus_mode,
                         NoFrame)>>,
     logged |-> BusLog(h, "Initialize()")
                \o (IF res # PCAN_ERROR_OK
                    THEN <<LogLine("CAN-Bus initialization FAILED!", <<>>, res)>>
                    ELSE <<>>),
     exits |-> res # PCAN_ERROR_OK]

Initialize(h, hw) == Initialized(h, InitializeResult(h, hw))

\* the attributes are resolved in the order id, channel, baudrate, mode; the
\* first one that fails ends the factory
Attach(variant, hid, id, channel, baudrate, mode, hw) ==
    IF id.err # "" THEN Failed(id.err)
    ELSE IF channel.err # "" THEN Failed(channel.err)
    ELSE IF baudrate.err # "" THEN Failed(baudrate.err)
    ELSE IF mode.err # "" THEN Failed(mode.err)
    ELSE Initialize([hid |-> hid, variant |-> variant, canbus_id |-> id.val.n,
                     canbus_channel |-> channel.val,
                     canbus_baudrate |-> baudrate.val,
                     canbus_mode |-> mode.val], hw)

make_canbus(cfg, tm, hw, hid) ==
    Attach(IF tm THEN "TestModeCanBus" ELSE "PCANBasic", hid,
           get_id(cfg.canbus_id), get_channel(cfg.canbus_channel),
           get_baudrate(cfg.canbus_baudrate), get_mode(cfg.canbus_mode), hw)

(* ------------------------------------------------------------------ *)
(* Lifecycle binder: on_start                                          *)
(* ------------------------------------------------------------------ *)

\* on_start after make_canbus, m being what make_canbus did: an exception
\* escapes, or the handle returned is stored.  engine.exit(), when
\* make_canbus called it, has published 'stop' first, which runs on_stop
\* inside the start event; then the engine either ends the process or
\* returns, and make_canbus returns the handle.
Started(m, ex) ==
    IF m.err # ""
    THEN /\ UNCHANGED <<alive, lifecycle, canbus, hstate>>
         /\ calls' = <<>>
         /\ logged' = <<>>
         /\ laststart' = m.err
    ELSE IF ~m.exits
    THEN /\ canbus' = <<m.handle>>
         /\ hstate' = Append(hstate, "live")
         /\ lifecycle' = "Running"
         /\ calls' = m.calls
         /\ logged' = m.logged
         /\ laststart' = "started"
         /\ UNCHANGED alive
    ELSE /\ hstate' = Closed(Append(hstate, "dead"), canbus)
         /\ calls' = m.calls \o OnStopCalls(canbus)
         /\ logged' = m.logged \o OnStopLogged(canbus)
         /\ IF ex = "killed"
            THEN /\ alive' = FALSE
                 /\ canbus' = OnStopCanbus(canbus)
                 /\ UNCHANGED lifecycle
                 /\ laststart' = "killed"
            ELSE /\ canbus' = <<m.handle>>
                 /\ lifecycle' = "Running"
                 /\ laststart' = "exit returned"
                 /\ UNCHANGED alive

\* on_start, the engine's 'start' event
OnStart(cfg, hw, ex) ==
    /\ alive
    /\ event.op # "proxy"
    /\ lifecycle \in {"Unstarted", "Stopped"}
    /\ Len(hstate) < MaxInits
    /\ config' = <<cfg>>
    /\ Started(make_canbus(cfg, testmode, hw, Len(hstate) + 1), ex)
    /\ event' = [op |-> "start", value |-> PyNone, result |-> ""]
    /\ UNCHANGED <<testmode, response, checked, inflight, previous>>

\* on_stop, the engine's 'stop' event
OnStop ==
    /\ alive
    /\ event.op # "proxy"
    /\ calls' = OnStopCalls(canbus)
    /\ logged' = OnStopLogged(canbus)
    /\ canbus' = OnStopCanbus(canbus)
    /\ hstate' = Closed(hstate, canbus)
    /\ lifecycle' = IF lifecycle = "Running" THEN "Stopped" ELSE lifecycle
    /\ event' = [op |-> "stop", value |-> PyNone, result |-> ""]
    /\ UNCHANGED <<alive, testmode, config, response, laststart, checked,
                   inflight, previous>>

(* ------------------------------------------------------------------ *)
(* Request translator: proxy                                           *)
(* ------------------------------------------------------------------ *)

\* (variant: only an absent value is skipped, "if value is None")
IsFalsy_none_only(value) == value.t = "none"

\* "if not value": None and the empty text are false
IsFalsy(value) == value.t = "none" \/ (value.t = "str" /\ value.s = <<>>)

\* int(value, 0), for every value text of the model
numvalue == [t \in ValueTexts \cup SampleTexts |-> ParseInt(t, 0)]

\* (variant: the value is stored as it is)
c_ubyte_unmasked(n) == n

\* msg.DATA[0] = numvalue: the element is an unsigned byte and keeps the
\* low eight bits
c_ubyte(n) == n % 256

\* TPCANMsg() with ID, LEN, MSGTYPE and DATA[0] assigned
Frame(h, n) ==
    [ID |-> h.canbus_id,
     LEN |-> 8,
     MSGTYPE |-> h.canbus_mode,
     DATA |-> <<c_ubyte(n), 0, 0, 0, 0, 0, 0, 0>>]

Ok200 == [status |-> 200, reason |-> "OK", ctype |-> "text/html", body |-> ""]
error == "Integer value expected."
\* (variant: the status line is left at its default)
BadRequest_status_unset ==
    [status |-> 200, reason |-> "OK", ctype |-> "text/plain", body |-> error]

BadRequest == [status |-> 400, reason |-> error, ctype |-> "text/plain", body |-> error]

errmsg == "CANHTTPD2 Sending value to CAN-Bus FAILED!"
sentmsg == "CANHTTPD2 Value has been sent onto CAN-Bus."

\* the request reaches self.canbus.Write on a bus object
ReachesWrite(cb, value) ==
    ~IsFalsy(value) /\ value.t = "str" /\ numvalue[value.s].ok /\ cb # <<>>

\* the log line of proxy after Write
WriteLogged(value, res) ==
    IF res.raised \/ res.status # PCAN_ERROR_OK
    THEN <<LogLine(errmsg, value.s, res.status)>>
    ELSE <<LogLine(sentmsg, value.s, "")>>

\* (variant: a failed write is answered with an error)
Written_surfacing(h, value, msg, res) ==
    [response |-> IF res.raised \/ res.status # PCAN_ERROR_OK
                  THEN [status |-> 500, reason |-> "Internal Server Error",
                        ctype |-> "text/html", body |-> res.status]
                  ELSE Ok200,
     calls |-> <<BusCall("Write", h, NoConst, NoConst, msg)>>,
     logged |-> BusLog(h, "Write()") \o WriteLogged(value, res),
     wrote |-> IF res.raised THEN "raised" ELSE res.status]

\* (variant: a failed write is tried once more)
Written_retrying(h, value, msg, res) ==
    [response |-> Ok200,
     calls |-> IF res.raised \/ res.status # PCAN_ERROR_OK
               THEN <<BusCall("Write", h, NoConst, NoConst, msg),
                      BusCall("Write", h, NoConst, NoConst, msg)>>
               ELSE <<BusCall("Write", h, NoConst, NoConst, msg)>>,
     logged |-> BusLog(h, "Write()") \o WriteLogged(value, res),
     wrote |-> IF res.raised THEN "raised" ELSE res.status]

\* self.canbus.Write(self.canbus.canbus_channel, msg) and what follows it
Written(h, value, msg, res) ==
    [response |-> Ok200,
     calls |-> <<BusCall("Write", h, NoConst, NoConst, msg)>>,
     logged |-> BusLog(h, "Write()") \o WriteLogged(value, res),
     wrote |-> IF res.raised THEN "raised" ELSE res.status]

\* the try block of proxy with a bus object held
Send(h, value, n, w) == Written(h, value, Frame(h, n), WriteResult(h, w))

\* the try block of proxy with self.canbus None: the attribute access
\* msg.ID = self.canbus.canbus_id raises AttributeError, which the except
\* clause logs
Unbound(value) ==
    [response |-> Ok200, calls |-> <<>>,
     logged |-> <<LogLine(errmsg, value.s, "AttributeError")>>,
     wrote |-> ""]

\* an exception leaves proxy: the server answers 500
Escaped(e) ==
    [response |-> [status |-> 500, reason |-> "Internal Server Error",
                   ctype |-> "text/html", body |-> e],
     calls |-> <<>>, logged |-> <<>>, wrote |-> ""]

\* proxy(value): the response, the bus calls and the log lines; w is what
\* the driver's Write does when it is called
proxy(cb, value, w) ==
    IF IsFalsy(value)
    THEN [response |-> Ok200, calls |-> <<>>, logged |-> <<>>, wrote |-> ""]
    ELSE IF value.t = "list"
    THEN \* int(value, 0) of a list raises TypeError, which "except
         \* ValueError" does not catch
         Escaped("TypeError")
    ELSE IF ~numvalue[value.s].ok
    THEN [response |-> BadRequest, calls |-> <<>>, logged |-> <<>>, wrote |-> ""]
    ELSE IF cb = <<>>
    THEN Unbound(value)
    ELSE Send(cb[1], value, numvalue[value.s].val, w)

\* the outputs of one request
Served(value, r) ==
    /\ response' = r.response
    /\ calls' = r.calls
    /\ logged' = r.logged
    /\ event' = [op |-> "proxy", value |-> value, result |-> r.wrote]

\* one request GET /proxy?value=...
Proxy(value, w) ==
    /\ alive
    /\ event.op # "proxy"
    /\ Served(value, proxy(canbus, value, w))
    /\ UNCHANGED <<alive, lifecycle, testmode, config, canbus, hstate,
                   laststart, checked, inflight, previous>>

\* proxy returns: the server sends the response and drops the request's
\* objects (cherrypy.response belongs to one request); the next event is
\* taken up after that
Delivered ==
    /\ event.op = "proxy"
    /\ response' = NoResponse
    /\ calls' = <<>>
    /\ logged' = <<>>
    /\ event' = [op |-> "responded", value |-> PyNone, result |-> ""]
    /\ UNCHANGED <<alive, lifecycle, testmode, config, canbus, hstate,
                   laststart, checked, inflight>>

Respond == Delivered /\ UNCHANGED previous

\* how the request just served ended
Ended ==
    IF response.status = 500 THEN "error"
    ELSE IF response.status = 400 THEN "parse error"
    ELSE IF event.result # "" THEN event.result
    ELSE IF logged # <<>> THEN "no handle"
    ELSE "empty"

\* the same step, with the way the request ended kept for the next one
Remember == Delivered /\ previous' = Ended

\* the driver's outcomes matter only when the driver's Write is called
OutcomesFor(cb, value) ==
    IF ReachesWrite(cb, value) /\ cb[1].variant = "PCANBasic"
    THEN WriteOutcomes
    ELSE {Returned(PCAN_ERROR_OK)}

(* ------------------------------------------------------------------ *)
(* Request workers: proxy on the threads of the server                 *)
(* ------------------------------------------------------------------ *)

\* a worker inside self.canbus.Write on the bus object it read from
\* self.canbus
InWrite(value, h) ==
    [pc |-> "Write", value |-> value, bus |-> <<h>>, response |-> NoResponse,
     logged |-> <<>>]

\* a worker whose proxy call has returned
Done(value, r) ==
    [pc |-> "done", value |-> value, bus |-> <<>>, response |-> r.response,
     logged |-> r.logged]

\* a worker takes a request and runs proxy up to the call of Write; a
\* request that does not reach Write runs to its return.  Nothing in proxy
\* waits for another worker.
Receive(w, value) ==
    /\ alive
    /\ inflight[w].pc = "idle"
    /\ inflight' = [inflight EXCEPT ![w] =
          IF ReachesWrite(canbus, value)
          THEN InWrite(value, canbus[1])
          ELSE Done(value, proxy(canbus, value, Returned(PCAN_ERROR_OK)))]
    /\ UNCHANGED <<alive, lifecycle, testmode, config, canbus, hstate, calls,
                   logged, response, event, laststart, checked, previous>>

\* Write returns or raises in a worker; proxy logs the outcome and returns
WriteReturn(w, res) ==
    /\ inflight[w].pc = "Write"
    /\ inflight' = [inflight EXCEPT ![w] =
          Done(inflight[w].value,
               Send(inflight[w].bus[1], inflight[w].value,
                    numvalue[inflight[w].value.s].val, res))]
    /\ UNCHANGED <<alive, lifecycle, testmode, config, canbus, hstate, calls,
                   logged, response, event, laststart, checked, previous>>

\* the server sends a worker's response; the worker is free again
Reply(w) ==
    /\ inflight[w].pc = "done"
    /\ inflight' = [inflight EXCEPT ![w] = Idle]
    /\ UNCHANGED <<alive, lifecycle, testmode, config, canbus, hstate, calls,
                   logged, response, event, laststart, checked, previous>>

(* ------------------------------------------------------------------ *)
(* Specification                                                       *)
(* ------------------------------------------------------------------ *)

StartOver(cfgs) ==
    /\ alive
    /\ event.op # "proxy"
    /\ \E cfg \in cfgs, hw \in InitializeResults, ex \in ExitOutcomes :
          OnStart(cfg, hw, ex)

RequestOver(values) ==
    /\ alive
    /\ event.op # "proxy"
    /\ \E value \in values : \E w \in OutcomesFor(canbus, value) :
          Proxy(value, w)

\* the lifecycle runs: every configuration, the sample requests
Start == StartOver(Configs)
Stop == OnStop
Request == RequestOver(SampleValues)
Next == Start \/ Stop \/ Request \/ Respond
Spec == Init /\ [][Next]_vars

\* the request runs: a few configurations, every request value
StartRequestRun == StartOver(RequestConfigs)
AnyRequest == RequestOver(Values)
NextRequests == StartRequestRun \/ Stop \/ AnyRequest \/ Respond
SpecRequests == Init /\ [][NextRequests]_vars

\* the concurrent runs: the workers of the thread pool take requests and
\* the engine's events arrive in between
WorkerValues == {PyNone, PyStr(<<"5">>), PyStr(<<"a">>)}

Accept ==
    \E w \in Workers, value \in WorkerValues : Receive(w, value)

Return ==
    \E w \in Workers :
       /\ inflight[w].pc = "Write"
       /\ \E res \in (IF inflight[w].bus[1].variant = "PCANBasic"
                       THEN WriteOutcomes ELSE {Returned(PCAN_ERROR_OK)}) :
             WriteReturn(w, res)

Answer == \E w \in Workers : Reply(w)

NextWorkers == StartRequestRun \/ Stop \/ Accept \/ Return \/ Answer
SpecWorkers == Init /\ [][NextWorkers]_vars

\* the request sequences: each request is served knowing how the one
\* before it ended
NextSequence == StartRequestRun \/ Stop \/ Request \/ Remember
SpecSequence == Init /\ [][NextSequence]_vars

(* ------------------------------------------------------------------ *)
(* The validators applied to raw configuration values                  *)
(* ------------------------------------------------------------------ *)

\* every spelling of a word in lower and upper case letters
RECURSIVE CaseVariants(_)
CaseVariants(word) ==
    IF word = <<>> THEN {<<>>}
    ELSE {<<c>> \o rest : c \in {Head(word), UpperChar(Head(word))},
                         rest \in CaseVariants(Tail(word))}

RawChannels ==
    {PyInt(n) : n \in -2..11}
    \cup {PyStr(t) : t \in TextsUpTo({"0", "1", "8", "9", "-", "x"}, MaxCfgLen)}

RawBaudrates ==
    {PyStr(t) : t \in TextsUpTo({"0", "1", "5", "k", "K", "m", "M"}, MaxCfgLen)}
    \cup {PyStr(t) : t \in CaseVariants(<<"2", "5", "0", "k">>)
                          \cup CaseVariants(<<"1", "0", "0", "k">>)
                          \cup {<<"2", "5", "0">>, <<"2", "5", "0", "K", "B">>,
                                <<" ", "1", "M">>, <<"2", "5", "0", "0", "0", "0">>}}

RawModes ==
    {PyStr(t) : t \in CaseVariants(<<"s", "t", "a", "n", "d", "a", "r", "d">>)
                      \cup CaseVariants(<<"e", "x", "t", "e", "n", "d", "e", "d">>)
                      \cup {<<>>, <<"s", "t", "d">>, <<"s", "t", "a", "n", "d", "a", "r">>,
                            <<"e", "x", "t", "e", "n", "d", "e", "d", " ">>,
                            <<"n", "o", "r", "m", "a", "l">>, <<"0">>}}

RawIds ==
    {PyStr(t) : t \in TextsUpTo({"0", "1", "f", "F", "g", "x", "-"}, MaxCfgLen)}
    \cup {PyStr(<<"0", "x">> \o t) : t \in TextsUpTo({"0", "1", "f", "F", "g", "x", "-"}, MaxCfgLen)}
    \cup {default_config.canbus_id}

\* a validator and the raw value it is about to be given
Pending(fn, input) ==
    <<[fn |-> fn, input |-> input, err |-> "pending", val |-> NoConst]>>

IsPending(fn) ==
    checked # <<>> /\ checked[1].fn = fn /\ checked[1].err = "pending"

ValidatorResult(fn, input, out) ==
    <<[fn |-> fn, input |-> input, err |-> out.err, val |-> out.val]>>

ValidateChannel ==
    /\ IsPending("get_channel")
    /\ checked' = ValidatorResult("get_channel", checked[1].input,
                                  get_channel(checked[1].input))
    /\ UNCHANGED <<alive, lifecycle, testmode, config, canbus, hstate, calls,
                   logged, response, event, laststart, inflight, previous>>

ValidateBaudrate ==
    /\ IsPending("get_baudrate")
    /\ checked' = ValidatorResult("get_baudrate", checked[1].input,
                                  get_baudrate(checked[1].input))
    /\ UNCHANGED <<alive, lifecycle, testmode, config, canbus, hstate, calls,
                   logged, response, event, laststart, inflight, previous>>

ValidateMode ==
    /\ IsPending("get_mode")
    /\ checked' = ValidatorResult("get_mode", checked[1].input,
                                  get_mode(checked[1].input))
    /\ UNCHANGED <<alive, lifecycle, testmode, config, canbus, hstate, calls,
                   logged, response, event, laststart, inflight, previous>>

\* what the factory did with the id: the exception and the handle's id
IdOutcome(m) == [err |-> m.err, val |-> PcanConst("int", m.handle.canbus_id, <<>>)]

\* the factory on the default configuration with the id replaced
ValidateId ==
    /\ IsPending("make_canbus")
    /\ checked' = ValidatorResult("make_canbus", checked[1].input,
          IdOutcome(make_canbus([default_config EXCEPT !.canbus_id = checked[1].input],
                                testmode, PCAN_ERROR_OK, 1)))
    /\ UNCHANGED <<alive, lifecycle, testmode, config, canbus, hstate, calls,
                   logged, response, event, laststart, inflight, previous>>

\* the validator runs start with a raw value drawn for one validator
InitValidator ==
    /\ alive = TRUE
    /\ lifecycle = "Unstarted"
    /\ testmode \in BOOLEAN
    /\ config = <<>>
    /\ canbus = <<>>
    /\ hstate = <<>>
    /\ calls = <<>>
    /\ logged = <<>>
    /\ response = NoResponse
    /\ event = NoEvent
    /\ laststart = ""
    /\ checked \in {Pending("get_channel", x) : x \in RawChannels}
                   \cup {Pending("get_baudrate", x) : x \in RawBaudrates}
                   \cup {Pending("get_mode", x) : x \in RawModes}
                   \cup {Pending("make_canbus", x) : x \in RawIds}
    /\ inflight = [w \in Workers |-> Idle]
    /\ previous = "none"

NextValidator == ValidateChannel \/ ValidateBaudrate \/ ValidateMode \/ ValidateId
SpecValidator == InitValidator /\ [][NextValidator]_vars

(* ------------------------------------------------------------------ *)
(* The bus methods applied to argument lists                           *)
(* ------------------------------------------------------------------ *)

\* values passed to the bus methods
BusArgs ==
    {PcanConst("PCAN_USBBUS", 1, <<>>), PcanConst("PCAN_USBBUS", 8, <<>>),
     PcanConst("PCAN_BAUD", 0, <<"2", "5", "0", "K">>), PCAN_MODE_STANDARD,
     PcanConst("TPCANMsg", 35, <<>>)}

\* positional arguments, the keyword argument IOPort (<<>> when not given)
\* and what the driver would answer
BusInputs ==
    [args : TextsUpTo(BusArgs, MaxArgs),
     IOPort : {<<>>, <<PCAN_MODE_EXTENDED>>},
     hw : WriteOutcomes \cup {Returned(r) : r \in InitializeResults}]

\* a bus method and the arguments it is about to be called with
BusPending(op, input) ==
    <<[fn |-> op, input |-> input, err |-> "pending", val |-> NoConst,
       ret |-> "", driver |-> <<>>]>>

BusReturned(ret, driver) ==
    <<[checked[1] EXCEPT !.err = "", !.ret = ret, !.driver = driver]>>

\* the bus object the factory builds for the default configuration
BusObject == make_canbus(default_config, testmode, PCAN_ERROR_OK, 1).handle

\* what the caller of Write gets
Outcome(res) == IF res.raised THEN "raised" ELSE res.status

CallInitialize ==
    /\ IsPending("Initialize")
    /\ ~checked[1].input.hw.raised
    /\ checked' = BusReturned(
          InitializeResult(BusObject, checked[1].input.hw.status),
          DriverCalls(BusObject, "Initialize"))
    /\ UNCHANGED <<alive, lifecycle, testmode, config, canbus, hstate, calls,
                   logged, response, event, laststart, inflight, previous>>

CallWrite ==
    /\ IsPending("Write")
    /\ checked' = BusReturned(
          Outcome(WriteResult(BusObject, checked[1].input.hw)),
          DriverCalls(BusObject, "Write"))
    /\ UNCHANGED <<alive, lifecycle, testmode, config, canbus, hstate, calls,
                   logged, response, event, laststart, inflight, previous>>

CallUninitialize ==
    /\ IsPending("Uninitialize")
    /\ ~checked[1].input.hw.raised
    /\ checked' = BusReturned(
          UninitializeResult(BusObject, checked[1].input.hw.status),
          DriverCalls(BusObject, "Uninitialize"))
    /\ UNCHANGED <<alive, lifecycle, testmode, config, canbus, hstate, calls,
                   logged, response, event, laststart, inflight, previous>>

\* the bus runs start with one method and one argument list
InitBus ==
    /\ alive = TRUE
    /\ lifecycle = "Unstarted"
    /\ testmode \in BOOLEAN
    /\ config = <<>>
    /\ canbus = <<>>
    /\ hstate = <<>>
    /\ calls = <<>>
    /\ logged = <<>>
    /\ response = NoResponse
    /\ event = NoEvent
    /\ laststart = ""
    /\ checked \in {BusPending(op, x) :
                       op \in {"Initialize", "Write", "Uninitialize"},
                       x \in BusInputs}
    /\ inflight = [w \in Workers |-> Idle]
    /\ previous = "none"

NextBus == CallInitialize \/ CallWrite \/ CallUninitialize
SpecBus == InitBus /\ [][NextBus]_vars

(* ------------------------------------------------------------------ *)
(* Integer notations, as the claims name them                          *)
(* ------------------------------------------------------------------ *)

NotationDigits ==
    <<"0", "1", "2", "3", "4", "5", "6", "7", "8", "9",
      "a", "b", "c", "d", "e", "f">>

\* the digits of a base, in lower and upper case
DigitsOf(b) ==
    {NotationDigits[k] : k \in 1..b} \cup {UpperChar(NotationDigits[k]) : k \in 1..b}

DigitNumber(c) ==
    (CHOOSE k \in 1..Len(NotationDigits) :
        c \in {NotationDigits[k], UpperChar(NotationDigits[k])}) - 1

\* positional value, from the last digit
RECURSIVE Positional(_, _)
Positional(ds, b) ==
    IF ds = <<>> THEN 0
    ELSE Positional(SubSeq(ds, 1, Len(ds) - 1), b) * b + DigitNumber(ds[Len(ds)])

Minus(t) == t # <<>> /\ t[1] = "-"
Magnitude(t) == IF Minus(t) THEN Tail(t) ELSE t

AllIn(ds, set) == ds # <<>> /\ \A k \in 1..Len(ds) : ds[k] \in set

\* decimal: digits that do not start with a zero, or zero itself
IsDecimal(u) ==
    /\ AllIn(u, DigitsOf(10))
    /\ (u[1] # "0" \/ \A k \in 1..Len(u) : u[k] = "0")

\* 0x or 0o, then digits of the base
IsPrefixed(u, letters, b) ==
    /\ Len(u) >= 3
    /\ u[1] = "0"
    /\ u[2] \in letters
    /\ AllIn(SubSeq(u, 3, Len(u)), DigitsOf(b))

IsHex(u) == IsPrefixed(u, {"x", "X"}, 16)
IsOctal(u) == IsPrefixed(u, {"o", "O"}, 8)

\* a syntactically valid integer in decimal, 0x-hex or 0o-octal notation
InNotation(t) == IsDecimal(Magnitude(t)) \/ IsHex(Magnitude(t)) \/ IsOctal(Magnitude(t))

UnsignedNumber(u) ==
    IF IsHex(u) THEN Positional(SubSeq(u, 3, Len(u)), 16)
    ELSE IF IsOctal(u) THEN Positional(SubSeq(u, 3, Len(u)), 8)
    ELSE Positional(u, 10)

\* the number a text in one of the notations denotes
Denotes(t) ==
    IF Minus(t) THEN 0 - UnsignedNumber(Magnitude(t)) ELSE UnsignedNumber(Magnitude(t))

(* ------------------------------------------------------------------ *)
(* Request translator: properties                                      *)
(* ------------------------------------------------------------------ *)

\* the last event was a request with a text as its value
TextRequest == event.op = "proxy" /\ event.value.t = "str"

Held == canbus # <<>>

ExpectedFrame(h, n) ==
    [ID |-> h.canbus_id, LEN |-> 8, MSGTYPE |-> h.canbus_mode,
     DATA |-> <<n % 256, 0, 0, 0, 0, 0, 0, 0>>]

\* C1: a request whose value is a valid integer in decimal, 0x-hex or
\* 0o-octal notation, made while a handle is held, makes exactly one bus
\* call, a Write on the held handle with its channel and a frame of the
\* handle's id and mode, length 8, data byte 0 the denoted number modulo 256
\* and the other data bytes zero.  The frame depends on the text only through
\* the number it denotes, so two notations of one number give equal frames.
C1_ValidValueWritesOneFrame ==
    (TextRequest /\ InNotation(event.value.s) /\ Held)
    => /\ Len(calls) = 1
       /\ calls[1].op = "Write"
       /\ calls[1].hid = canbus[1].hid
       /\ calls[1].channel = canbus[1].canbus_channel
       /\ calls[1].frame = ExpectedFrame(canbus[1], Denotes(event.value.s))

\* a decimal text above 255 was sent on a held handle
C1_Witness ==
    /\ TextRequest
    /\ event.value.s = <<"9", "9", "9">>
    /\ Held
    /\ Len(calls) = 1
    /\ calls[1].frame.DATA[1] = 231

\* C2: a request whose value is a non-empty text that int(value, 0) rejects
\* is answered 400 with the body "Integer value expected." and makes no bus
\* call, whatever the lifecycle state and the bus variant.
C2_NonIntegerIs400WithoutWrite ==
    (TextRequest /\ event.value.s # <<>> /\ ~ParseInt(event.value.s, 0).ok)
    => /\ response.status = 400
       /\ response.body = "Integer value expected."
       /\ calls = <<>>

\* a text that is no integer was refused although a handle is held
C2_Witness ==
    /\ TextRequest
    /\ event.value.s = <<"0", "x">>
    /\ Held
    /\ response.status = 400
    /\ calls = <<>>

\* C3: a request with an empty or absent value changes nothing: it makes no
\* bus call, writes no log line, leaves the handle and the lifecycle as they
\* were and is answered with an empty 200 body.
C3_EmptyValueIsNoOp ==
    [][(event'.op = "proxy" /\ (event'.value.t = "none" \/ event'.value.s = <<>>))
       => /\ calls' = <<>>
          /\ logged' = <<>>
          /\ canbus' = canbus
          /\ hstate' = hstate
          /\ lifecycle' = lifecycle
          /\ response'.status = 200
          /\ response'.body = ""]_vars

\* an empty text was answered while a handle is held
C3_Witness ==
    /\ TextRequest
    /\ event.value.s = <<>>
    /\ Held
    /\ response.status = 200
    /\ calls = <<>>

\* the failure line of the log, carrying a value
FailureLogged(text) ==
    \E k \in 1..Len(logged) : logged[k].text = errmsg /\ logged[k].value = text

\* C4: a request whose value is a valid integer is answered with an empty
\* 200 body whatever Write does (returns OK, returns another status, raises);
\* when Write fails the log has the failure line with the value as given.
C4_WriteOutcomeIsNotSurfaced ==
    (TextRequest /\ InNotation(event.value.s))
    => /\ response.status = 200
       /\ response.body = ""
       /\ (event.result \notin {"", PCAN_ERROR_OK} => FailureLogged(event.value.s))

\* Write raised and the request was answered 200
C4_Witness ==
    /\ TextRequest
    /\ event.value.s = <<"0", "x", "a">>
    /\ event.result = "raised"
    /\ response.status = 200
    /\ FailureLogged(<<"0", "x", "a">>)

(* ------------------------------------------------------------------ *)
(* Configuration validator: properties                                 *)
(* ------------------------------------------------------------------ *)

\* the validator fn has been applied to a raw value
Applied(fn) ==
    checked # <<>> /\ checked[1].fn = fn /\ checked[1].err # "pending"

InvalidConfiguration == "InvalidConfigurationException"

\* the integer a raw channel value parses as; no integer for a text that is
\* not a decimal number
IsChannelNumber(x) ==
    x.t = "int" \/ (x.t = "str" /\ AllIn(Magnitude(x.s), DigitsOf(10)))
ChannelNumber(x) ==
    IF x.t = "int" THEN x.i
    ELSE IF Minus(x.s) THEN 0 - Positional(Magnitude(x.s), 10)
    ELSE Positional(x.s, 10)

\* C5: channel validation accepts exactly the values that parse as an
\* integer from 1 to 8; every other value, out of range or not numeric,
\* fails with InvalidConfiguration and with no other error.
C5_ChannelOneToEightElseInvalid ==
    Applied("get_channel")
    => IF IsChannelNumber(checked[1].input)
          /\ ChannelNumber(checked[1].input) \in 1..8
       THEN checked[1].err = ""
       ELSE checked[1].err = InvalidConfiguration

\* the fourteen baud rate labels
BaudrateLabels ==
    { <<"1", "M">>, <<"8", "0", "0", "K">>, <<"5", "0", "0", "K">>,
      <<"2", "5", "0", "K">>, <<"1", "2", "5", "K">>, <<"1", "0", "0", "K">>,
      <<"9", "5", "K">>, <<"8", "3", "K">>, <<"5", "0", "K">>,
      <<"4", "7", "K">>, <<"3", "3", "K">>, <<"2", "0", "K">>,
      <<"1", "0", "K">>, <<"5", "K">> }

\* two letters that differ in case only
CasePairs ==
    {<<"k", "K">>, <<"m", "M">>, <<"s", "S">>, <<"t", "T">>, <<"a", "A">>,
     <<"n", "N">>, <<"d", "D">>, <<"r", "R">>, <<"e", "E">>, <<"x", "X">>,
     <<"b", "B">>, <<"o", "O">>, <<"l", "L">>}

\* the text differs from the label in the case of its letters at most
SameButCase(t, label) ==
    /\ Len(t) = Len(label)
    /\ \A k \in 1..Len(t) : t[k] = label[k] \/ <<t[k], label[k]>> \in CasePairs

Spelling(t, labels) == {l \in labels : SameButCase(t, l)}

\* a text resolves to the constant of the one label it spells, or is refused
ResolvesByLabel(prefix, labels) ==
    IF Spelling(checked[1].input.s, labels) = {}
    THEN checked[1].err = InvalidConfiguration
    ELSE /\ checked[1].err = ""
         /\ checked[1].val.const = prefix
         /\ Spelling(checked[1].input.s, labels) = {checked[1].val.label}

\* C6: a baud rate text is accepted iff it spells one of the 14 labels up
\* to case, a mode text iff it spells STANDARD or EXTENDED up to case; an
\* accepted text resolves to the constant of that label, whatever its case,
\* and every other text fails with InvalidConfiguration.
C6_BaudrateAndModeIgnoreCase ==
    /\ Cardinality(BaudrateLabels) = 14
    /\ Applied("get_baudrate") => ResolvesByLabel("PCAN_BAUD", BaudrateLabels)
    /\ Applied("get_mode") => ResolvesByLabel("PCAN_MODE", {STANDARD, EXTENDED})

\* a mode spelled in mixed case resolved to the standard mode
C6_Witness ==
    /\ Applied("get_mode")
    /\ checked[1].input.s = <<"s", "T", "a", "N", "d", "A", "r", "D">>
    /\ checked[1].err = ""
    /\ checked[1].val = PCAN_MODE_STANDARD

\* a base-16 integer text: an optional sign, an optional 0x, hex digits
IsHexNumber(t) ==
    \/ AllIn(Magnitude(t), DigitsOf(16))
    \/ IsHex(Magnitude(t))

HexNumber16(u) ==
    IF IsHex(u) THEN Positional(SubSeq(u, 3, Len(u)), 16) ELSE Positional(u, 16)

HexNumber(t) ==
    IF Minus(t) THEN 0 - HexNumber16(Magnitude(t)) ELSE HexNumber16(t)

\* the id a text resolves to on the handle the factory builds
IdOf(t) ==
    make_canbus([default_config EXCEPT !.canbus_id = PyStr(t)], FALSE,
                PCAN_ERROR_OK, 1).handle.canbus_id

C8_InvalidConfigurationBindsNothing ==
    [][/\ (event'.op = "start" /\ laststart' = InvalidConfiguration)
          => calls' = <<>> /\ canbus' = canbus
       /\ (event'.op = "proxy" /\ laststart = InvalidConfiguration)
          => calls' = <<>>]_vars

\* C9: when Initialize returns another status than OK the server is
\* terminated, the handle it was called on is not the stored handle and no
\* Write is made on it.
C9_InitFailureIsFatal ==
    laststart \in {"killed", "exit returned"}
    => /\ ~alive
       /\ Held => canbus[1].hid # Len(hstate)
       /\ \A k \in 1..Len(calls) :
             calls[k].op = "Write" => calls[k].hid # Len(hstate)

\* C10: the stop event with a handle held calls Uninitialize once, with the
\* handle's channel, and holds no handle afterwards; with no handle held it
\* makes no bus call.
C10_StopUninitializesAndClears ==
    [][event'.op = "stop"
       => IF canbus # <<>>
          THEN /\ Len(calls') = 1
               /\ calls'[1].op = "Uninitialize"
               /\ calls'[1].hid = canbus[1].hid
               /\ calls'[1].channel = canbus[1].canbus_channel
               /\ canbus' = <<>>
          ELSE calls' = <<>>]_vars

\* the record of a handle says Uninitialize has been called on it
IsClosed(hs, hid) == hs[hid] \in {"closed", "closed2"}

WriteCalls(cs) == {k \in 1..Len(cs) : cs[k].op = "Write"}

\* C11: a start after a stop that succeeds stores a handle built by that
\* start, on which it has called Initialize; no event ends with a handle
\* stored on which Uninitialize has been called, a failed second start
\* included, and no Write is made on such a handle.
C11_RestartBindsNewHandle ==
    [][/\ (event'.op = "start" /\ lifecycle = "Stopped" /\ laststart' = "started")
          => /\ canbus' # <<>>
             /\ canbus'[1].hid = Len(hstate) + 1
             /\ \E k \in 1..Len(calls') :
                   calls'[k].op = "Initialize" /\ calls'[k].hid = canbus'[1].hid
       /\ canbus' # <<>> => ~IsClosed(hstate', canbus'[1].hid)
       /\ \A k \in WriteCalls(calls') : ~IsClosed(hstate, calls'[k].hid)]_vars

LiveHandles == {k \in 1..Len(hstate) : hstate[k] = "live"}

\* C12: at most one handle is live at any time, and while the binder is
\* Running the stored handle is the live one.
C12_OneLiveHandleHeldWhileRunning ==
    /\ Cardinality(LiveHandles) <= 1
    /\ lifecycle = "Running" => (Held /\ LiveHandles = {canbus[1].hid})

\* C14: a request calls Write only while the binder is Running, on the
\* handle that the start initialized and no stop has uninitialized.
C14_WritesOnlyWhileRunning ==
    event.op = "proxy"
    => \A k \in WriteCalls(calls) :
          lifecycle = "Running" /\ hstate[calls[k].hid] = "live"

\* C19: Uninitialize is called at most once on each handle that Initialize
\* was called on, whatever the order of the start and stop events.
C19_UninitializeAtMostOnce ==
    \A k \in 1..Len(hstate) : hstate[k] # "closed2"

\* the workers that are inside a Write call on the handle hid
Writing(hid) ==
    {w \in Workers : inflight[w].pc = "Write" /\ inflight[w].bus[1].hid = hid}

\* C13: with several workers serving valid requests on the one held handle,
\* at most one Write call on the handle is in progress at any time.
C13_WritesMutuallyExclusive ==
    \A hid \in 1..Len(hstate) : Cardinality(Writing(hid)) <= 1

\* one of the three bus methods has been called
BusMethodApplied ==
    Applied("Initialize") \/ Applied("Write") \/ Applied("Uninitialize")

\* C15: in test mode each of Initialize, Write and Uninitialize, whatever
\* its arguments, returns PCAN_ERROR_OK and reaches no driver call.
C15_SimulatedReturnsOkWithoutDriver ==
    (BusMethodApplied /\ testmode)
    => /\ checked[1].ret = PCAN_ERROR_OK
       /\ checked[1].driver = <<>>

(* ------------------------------------------------------------------ *)
(* The two bus variants side by side                                   *)
(* ------------------------------------------------------------------ *)

VariantFor(tm) == IF tm THEN "TestModeCanBus" ELSE "PCANBasic"

\* the stored handle of the run in the other mode: the same attributes on
\* an object of the other class
Twin(cb) ==
    IF cb = <<>> THEN <<>>
    ELSE <<[cb[1] EXCEPT !.variant = VariantFor(~testmode)]>>

\* bus calls by operation, handle and arguments, whatever the class
Anonymous(cs) == [k \in 1..Len(cs) |-> [cs[k] EXCEPT !.variant = ""]]

\* the start event in the other mode with the driver answering OK: the
\* same calls, the same exception if any, the twin handle stored
TwinStart(m) ==
    /\ ~m.exits
    /\ Anonymous(m.calls) = Anonymous(calls')
    /\ IF m.err # ""
       THEN laststart' = m.err /\ canbus' = canbus
       ELSE laststart' = "started" /\ <<m.handle>> = Twin(canbus')

\* the request in the other mode with the driver answering OK
TwinRequest(r) ==
    /\ r.response = response'
    /\ Anonymous(r.calls) = Anonymous(calls')
    /\ r.wrote = event'.result

\* C16: every event of a run in which the driver answers OK has, in the
\* run of the other mode in the corresponding state, the same bus calls
\* with the same arguments and the same HTTP response, and leads to the
\* corresponding state; so the two runs of one event sequence agree from
\* the first event on.  The class of the stored object is the one the
\* testmode switch of the factory selects.
C16_SimulatedSubstitutesHardware ==
    [][/\ (event'.op = "start" /\ laststart' \notin {"killed", "exit returned"})
          => TwinStart(make_canbus(config'[1], ~testmode, PCAN_ERROR_OK,
                                   Len(hstate) + 1))
       /\ (event'.op = "proxy" /\ event'.result \in {"", PCAN_ERROR_OK})
          => TwinRequest(proxy(Twin(canbus), event'.value,
                               Returned(PCAN_ERROR_OK)))
       /\ event'.op = "stop"
          => /\ Anonymous(OnStopCalls(Twin(canbus))) = Anonymous(calls')
             /\ OnStopCanbus(Twin(canbus)) = Twin(canbus')
       /\ canbus' # <<>> => canbus'[1].variant = VariantFor(testmode)]_vars

\* a run in test mode has initialized a handle and written a frame on it
C16_Witness ==
    /\ testmode
    /\ lifecycle = "Running"
    /\ event.op = "proxy"
    /\ event.result = PCAN_ERROR_OK
    /\ Len(calls) = 1
    /\ calls[1].op = "Write"
    /\ calls[1].variant = "TestModeCanBus"

(* ------------------------------------------------------------------ *)
(* Requests one after another                                          *)
(* ------------------------------------------------------------------ *)

\* C17: a request, however it ends, leaves the held handle with its
\* channel, baud rate, mode and id, the configuration and the lifecycle as
\* they were and calls Write at most once; the valid request after it, with
\* a handle held, makes exactly one bus call, a Write of the frame built
\* from its own value, however the request before ended.
C17_FailedWriteLeavesNextRequestAlone ==
    [][event'.op = "proxy"
       => /\ canbus' = canbus
          /\ config' = config
          /\ hstate' = hstate
          /\ lifecycle' = lifecycle
          /\ Cardinality(WriteCalls(calls')) <= 1
          /\ (previous # "none" /\ event'.value.t = "str"
                /\ InNotation(event'.value.s) /\ Held)
             => /\ Len(calls') = 1
                /\ calls'[1].op = "Write"
                /\ calls'[1].hid = canbus[1].hid
                /\ calls'[1].frame
                      = ExpectedFrame(canbus[1], Denotes(event'.value.s))]_vars

\* the request after one whose Write raised wrote its own frame
C17_Witness ==
    /\ previous = "raised"
    /\ TextRequest
    /\ event.value.s = <<"5">>
    /\ event.result = PCAN_ERROR_OK
    /\ Len(calls) = 1
    /\ calls[1].op = "Write"
    /\ calls[1].frame.DATA[1] = 5

\* C18: a valid request served with a handle held makes exactly one Write
\* call and writes exactly one log line, the success line when Write
\* returned OK and the failure line otherwise, in both modes; an empty or
\* non-integer request makes no Write call.
C18_OneWriteAndOneLogLine ==
    /\ (TextRequest /\ InNotation(event.value.s) /\ Held)
       => /\ Cardinality(WriteCalls(calls)) = 1
          /\ Len(logged) = 1
          /\ logged[1].text
                = (IF event.result = PCAN_ERROR_OK THEN sentmsg ELSE errmsg)
    /\ (event.op = "proxy" /\ (event.value.t = "none"
                                \/ ~ParseInt(event.value.s, 0).ok))
       => WriteCalls(calls) = {}

\* C20: no request makes proxy raise, in any lifecycle state: it is
\* answered 200 or with the 400 of a parse error; a valid request served
\* while no handle is held makes no bus call, logs the failure line once
\* and is answered with an empty 200 body.
C20_ProxyNeverRaises ==
    /\ event.op = "proxy" => response.status \in {200, 400}
    /\ (TextRequest /\ InNotation(event.value.s) /\ ~Held)
       => /\ calls = <<>>
          /\ Len(logged) = 1
          /\ logged[1].text = errmsg
          /\ logged[1].value = event.value.s
          /\ response.status = 200
          /\ response.body = ""

====
